---- MODULE Spec2Model ----
(***************************************************************************)
(* Inventory search backend (src/backend/index.js): an in-memory store of  *)
(* inventory records, GET /search filtering it by name, category and       *)
(* price range, and GET /categories listing its distinct categories.       *)
(*                                                                         *)
(* Text values are sequences of one-character strings, so that             *)
(* toLowerCase, includes, parseFloat and sort are computed on characters.  *)
(***************************************************************************)
EXTENDS Integers, Sequences, FiniteSets, TLC

VARIABLES
    inventoryData,  \* the loaded store: a sequence of records (index.js:14)
    req,            \* the request being handled: path and req.query
    sent,           \* the responses written to res for that request, in order
    fault,          \* whether the handler's try block raised an exception
    loaded,         \* the dataset as JSON.parse returned it at start-up
    form,           \* Home: searchQuery, category, minPrice, maxPrice
    searchParams,   \* Home: the parameters the inventory query is keyed by
    validationError,\* Home: the validation message, "" when there is none
    inventoryQuery, \* state of useQuery(['inventory', searchParams])
    categoriesQuery,\* state of useQuery(['categories'])
    cachedEmpty,    \* cache entry of the empty-filter key while another
                    \* key is observed
    searchInFlight, \* the /search request awaiting its response, if any
    attempts        \* /search requests sent by the fetch under way or last
                    \* settled

serverVars == <<inventoryData, req, sent, fault, loaded>>

clientVars ==
    <<form, searchParams, validationError, inventoryQuery, categoriesQuery,
      cachedEmpty, searchInFlight, attempts>>

vars == <<serverVars, clientVars>>

----------------------------------------------------------------------------
(* Bounds *)

\* longest store the model loads
MaxStore == 2

----------------------------------------------------------------------------
(* Characters and text *)

\* String.prototype.toLowerCase on one character of the alphabet
LowerChar(c) ==
    CASE c = "A" -> "a"
      [] c = "B" -> "b"
      [] c = "L" -> "l"
      [] OTHER -> c

\* UTF-16 code unit of a character (Array.prototype.sort's default order)
CharCode(c) ==
    CASE c = "A" -> 65
      [] c = "B" -> 66
      [] c = "L" -> 76
      [] c = "a" -> 97
      [] c = "b" -> 98
      [] c = "l" -> 108
      [] c = "-" -> 45
      [] c = "1" -> 49
      [] c = "2" -> 50
      [] OTHER -> 0

RECURSIVE toLowerCase(_)
toLowerCase(s) ==
    IF s = <<>> THEN <<>> ELSE <<LowerChar(Head(s))>> \o toLowerCase(Tail(s))

\* String.prototype.includes: query occurs at some offset of text
includes(text, query) ==
    \E i \in 0..(Len(text) - Len(query)) :
        SubSeq(text, i + 1, i + Len(query)) = query

----------------------------------------------------------------------------
(* Query parameter values: req.query.x is undefined, a string, or (for a  *)
(* repeated parameter, ?q=a&q=b) an array of strings                       *)

Undefined == [kind |-> "undefined", val |-> <<>>]
Null == [kind |-> "null", val |-> <<>>]
Str(s) == [kind |-> "string", val |-> s]
Arr == [kind |-> "array", val |-> <<>>]

IsString(p) == p.kind = "string"

\* JavaScript truthiness of a parameter value: undefined, null and "" are
\* falsy, every other string and every array is truthy
Truthy(p) ==
    CASE p.kind = "string" -> p.val # <<>>
      [] p.kind = "array" -> TRUE
      [] OTHER -> FALSE

\* x || null of the echoed query
OrNull(p) == IF Truthy(p) THEN p ELSE Null

----------------------------------------------------------------------------
(* Numbers: parseFloat yields NaN or a number *)

NaN == [nan |-> TRUE, num |-> 0]
Num(n) == [nan |-> FALSE, num |-> n]
isNaN(x) == x.nan

Digits == {"1", "2"}

DigitVal(c) == IF c = "1" THEN 1 ELSE 2

\* the longest prefix of s made of digits
RECURSIVE DigitPrefix(_)
DigitPrefix(s) ==
    IF s = <<>> \/ Head(s) \notin Digits THEN <<>>
    ELSE <<Head(s)>> \o DigitPrefix(Tail(s))

\* decimal value of a sequence of digits
RECURSIVE DecimalValue(_)
DecimalValue(d) ==
    IF d = <<>> THEN 0
    ELSE 10 * DecimalValue(SubSeq(d, 1, Len(d) - 1)) + DigitVal(d[Len(d)])

\* parseFloat on a string of digits, "-" and other characters: an optional
\* sign, then the longest run of digits; NaN when there is no digit;
\* whatever follows the digits is ignored
parseFloat(p) ==
    LET s == p.val
        neg == s # <<>> /\ Head(s) = "-"
        body == IF neg THEN Tail(s) ELSE s
        d == DigitPrefix(body)
    IN  IF d = <<>> THEN NaN
        ELSE Num(IF neg THEN 0 - DecimalValue(d) ELSE DecimalValue(d))

----------------------------------------------------------------------------
(* Inventory records and the store *)

Rec(id, name, cat, price) ==
    [id |-> id, product_name |-> name, category |-> cat, price |-> price,
     quantity |-> 1, supplier |-> <<"a">>, city |-> <<"b">>]

\* the records a dataset is made of: names and categories that differ in
\* case only, two records of one category, equal prices
RecordPool ==
    { Rec(1, <<"a", "B", "a">>, <<"A", "b">>, 1),
      Rec(2, <<"a", "b">>, <<"a", "b">>, 2),
      Rec(3, <<"b">>, <<"a", "l", "l">>, 12),
      Rec(4, <<"B", "a">>, <<"a", "b">>, 2) }

\* a dataset: up to MaxStore records with unique identifiers, in any order
Stores ==
    { s \in UNION { [1..n -> RecordPool] : n \in 0..MaxStore } :
        \A i, j \in DOMAIN s : i # j => s[i].id # s[j].id }

----------------------------------------------------------------------------
(* Helpers of index.js *)

\* matchesQuery comparing without lowering the text
matchesQuery_CaseSensitive(text, query) ==
    IF ~Truthy(query) THEN TRUE
    ELSE includes(text, toLowerCase(query.val))

\* matchesQuery(text, query), for a query that has toLowerCase
matchesQuery(text, query) ==
    IF ~Truthy(query) THEN TRUE
    ELSE includes(toLowerCase(text), toLowerCase(query.val))

\* the category callback testing containment instead of equality
categoryMatches_Includes(item, category) ==
    includes(toLowerCase(item.category), toLowerCase(category.val))

\* the comparison of the category filter's callback
categoryMatches(item, category) ==
    toLowerCase(item.category) = toLowerCase(category.val)

\* x.toLowerCase() raises a TypeError when x is an array
toLowerCaseThrows(p) == ~IsString(p)

\* a < b in the order of Array.prototype.sort without a comparator:
\* code unit by code unit, a proper prefix first
RECURSIVE StringLess(_, _)
StringLess(a, b) ==
    IF b = <<>> THEN FALSE
    ELSE IF a = <<>> THEN TRUE
    ELSE IF CharCode(Head(a)) # CharCode(Head(b))
         THEN CharCode(Head(a)) < CharCode(Head(b))
    ELSE StringLess(Tail(a), Tail(b))

\* [...new Set(xs)]: the distinct values, each at its first occurrence
RECURSIVE Distinct(_)
Distinct(xs) ==
    IF xs = <<>> THEN <<>>
    ELSE LET front == Distinct(SubSeq(xs, 1, Len(xs) - 1))
             last == xs[Len(xs)]
         IN  IF \E i \in DOMAIN front : front[i] = last THEN front
             ELSE Append(front, last)

\* insertion of x into a sorted sequence (after the values not greater)
RECURSIVE InsertSorted(_, _)
InsertSorted(x, xs) ==
    IF xs = <<>> THEN <<x>>
    ELSE IF StringLess(x, Head(xs)) THEN <<x>> \o xs
    ELSE <<Head(xs)>> \o InsertSorted(x, Tail(xs))

\* Array.prototype.sort() of strings
RECURSIVE sort(_)
sort(xs) ==
    IF xs = <<>> THEN <<>>
    ELSE InsertSorted(xs[Len(xs)], sort(SubSeq(xs, 1, Len(xs) - 1)))

\* getCategories without the Set: every record's category, sorted
getCategories_NoDedupe(data) ==
    sort([i \in DOMAIN data |-> data[i].category])

\* the store sorted in place by category (inventoryData.sort(...))
RECURSIVE SortedByCategory(_)
SortedByCategory(data) ==
    IF data = <<>> THEN <<>>
    ELSE LET rest == SortedByCategory(SubSeq(data, 1, Len(data) - 1))
             x == data[Len(data)]
             k == Cardinality({ i \in DOMAIN rest :
                                  ~StringLess(x.category, rest[i].category) })
         IN  SubSeq(rest, 1, k) \o <<x>> \o SubSeq(rest, k + 1, Len(rest))

\* getCategories sorting the store itself
storeAfterCategories_SortsInPlace(data) == SortedByCategory(data)

\* inventoryData after getCategories: map, Set, spread and sort work on
\* new arrays, the store is not written
storeAfterCategories(data) == data

\* inventoryData after the /search handler: [...inventoryData] copies and
\* filter returns new arrays, the store is not written
storeAfterSearch(data, query) == data

\* getCategories() over the store
getCategories(data) ==
    sort(Distinct([i \in DOMAIN data |-> data[i].category]))

----------------------------------------------------------------------------
(* GET /search *)

\* the outcome of a step of the try block: a results array, or an exception
Ok(results) == [threw |-> FALSE, results |-> results]
Threw == [threw |-> TRUE, results |-> <<>>]

\* index.js:51-54. The callback runs once per element, so an array-valued q
\* raises only when there is an element to test
nameFilter(results, q) ==
    IF Truthy(q)
    THEN IF results # <<>> /\ toLowerCaseThrows(q) THEN Threw
         ELSE Ok(SelectSeq(results,
                           LAMBDA item : matchesQuery(item.product_name, q)))
    ELSE Ok(results)

\* the category filter without the test that category is present:
\* undefined.toLowerCase() raises
categoryFilter_NoPresenceTest(results, category) ==
    IF category # Str(<<"a", "l", "l">>)
    THEN IF results # <<>> /\ toLowerCaseThrows(category) THEN Threw
         ELSE Ok(SelectSeq(results,
                           LAMBDA item : categoryMatches(item, category)))
    ELSE Ok(results)

\* the category filter without the test for the sentinel
categoryFilter_NoSentinel(results, category) ==
    IF Truthy(category)
    THEN IF results # <<>> /\ toLowerCaseThrows(category) THEN Threw
         ELSE Ok(SelectSeq(results,
                           LAMBDA item : categoryMatches(item, category)))
    ELSE Ok(results)

\* index.js:56-61
categoryFilter(results, category) ==
    IF Truthy(category) /\ category # Str(<<"a", "l", "l">>)
    THEN IF results # <<>> /\ toLowerCaseThrows(category) THEN Threw
         ELSE Ok(SelectSeq(results,
                           LAMBDA item : categoryMatches(item, category)))
    ELSE Ok(results)

\* the minimum filter without the isNaN test: price >= NaN is false
minPriceFilter_NoNaNCheck(results, minPrice) ==
    IF minPrice # Undefined /\ minPrice # Str(<<>>)
    THEN LET min == parseFloat(minPrice)
         IN  SelectSeq(results,
                       LAMBDA item : ~isNaN(min) /\ item.price >= min.num)
    ELSE results

\* index.js:63-69
minPriceFilter(results, minPrice) ==
    IF minPrice # Undefined /\ minPrice # Str(<<>>)
    THEN LET min == parseFloat(minPrice)
         IN  IF ~isNaN(min)
             THEN SelectSeq(results, LAMBDA item : item.price >= min.num)
             ELSE results
    ELSE results

\* the maximum filter with a strict comparison
maxPriceFilter_Strict(results, maxPrice) ==
    IF maxPrice # Undefined /\ maxPrice # Str(<<>>)
    THEN LET max == parseFloat(maxPrice)
         IN  IF ~isNaN(max)
             THEN SelectSeq(results, LAMBDA item : item.price < max.num)
             ELSE results
    ELSE results

\* index.js:71-77
maxPriceFilter(results, maxPrice) ==
    IF maxPrice # Undefined /\ maxPrice # Str(<<>>)
    THEN LET max == parseFloat(maxPrice)
         IN  IF ~isNaN(max)
             THEN SelectSeq(results, LAMBDA item : item.price <= max.num)
             ELSE results
    ELSE results

\* the validation comparing the raw strings instead of the parsed numbers
invalidPriceRange_RawStrings(minPrice, maxPrice) ==
    /\ Truthy(minPrice) /\ Truthy(maxPrice)
    /\ LET min == parseFloat(minPrice)
           max == parseFloat(maxPrice)
       IN  ~isNaN(min) /\ ~isNaN(max) /\ StringLess(maxPrice.val, minPrice.val)

\* index.js:80-83: the condition under which the 400 response is returned
invalidPriceRange(minPrice, maxPrice) ==
    /\ Truthy(minPrice) /\ Truthy(maxPrice)
    /\ LET min == parseFloat(minPrice)
           max == parseFloat(maxPrice)
       IN  ~isNaN(min) /\ ~isNaN(max) /\ min.num > max.num

NoQuery == [q |-> Null, category |-> Null, minPrice |-> Null, maxPrice |-> Null]

\* a response: the status code and the JSON body (keys: the body's fields)
Response(status, keys, success, error, count, query, results, categories) ==
    [status |-> status, keys |-> keys, success |-> success, error |-> error,
     count |-> count, query |-> query, results |-> results,
     categories |-> categories]

\* index.js:84-88
invalidRangeResponse ==
    Response(400, {"success", "error", "results"}, FALSE,
             "Invalid price range: minPrice cannot be greater than maxPrice",
             0, NoQuery, <<>>, <<>>)

RECURSIVE Reverse(_)
Reverse(s) == IF s = <<>> THEN <<>> ELSE Append(Reverse(Tail(s)), Head(s))

\* the success response echoing req.query as received, without || null
searchResponse_EchoRaw(results, query) ==
    Response(200, {"success", "count", "query", "results"}, TRUE, "",
             Len(results),
             [q |-> query.q, category |-> query.category,
              minPrice |-> query.minPrice, maxPrice |-> query.maxPrice],
             results, <<>>)

\* the success response listing the results last to first
searchResponse_Reversed(results, query) ==
    Response(200, {"success", "count", "query", "results"}, TRUE, "",
             Len(results),
             [q |-> OrNull(query.q), category |-> OrNull(query.category),
              minPrice |-> OrNull(query.minPrice),
              maxPrice |-> OrNull(query.maxPrice)],
             Reverse(results), <<>>)

\* index.js:93-103
searchResponse(results, query) ==
    Response(200, {"success", "count", "query", "results"}, TRUE, "",
             Len(results),
             [q |-> OrNull(query.q), category |-> OrNull(query.category),
              minPrice |-> OrNull(query.minPrice),
              maxPrice |-> OrNull(query.maxPrice)],
             results, <<>>)

\* index.js:107-111
searchErrorResponse ==
    Response(500, {"success", "error", "results"}, FALSE,
             "Internal server error", 0, NoQuery, <<>>, <<>>)

\* index.js:79-103: validation, then the success response; the 400 branch
\* returns, so nothing is written after it
respond(results, query) ==
    IF invalidPriceRange(query.minPrice, query.maxPrice)
    THEN <<invalidRangeResponse>>
    ELSE <<searchResponse(results, query)>>

\* the try block with the maximum filter applied to the store instead of
\* the running results
searchTry_FiltersStore(data, query) ==
    LET r1 == nameFilter(data, query.q)
        r2 == IF r1.threw THEN Threw
              ELSE categoryFilter(r1.results, query.category)
        r4 == maxPriceFilter(data, query.maxPrice)
    IN  IF r2.threw THEN [threw |-> TRUE, sent |-> <<>>]
        ELSE [threw |-> FALSE, sent |-> respond(r4, query)]

\* index.js:45-104, the try block: whether it raised, and what it wrote
searchTry(data, query) ==
    LET r1 == nameFilter(data, query.q)
        r2 == IF r1.threw THEN Threw
              ELSE categoryFilter(r1.results, query.category)
        r3 == minPriceFilter(r2.results, query.minPrice)
        r4 == maxPriceFilter(r3, query.maxPrice)
    IN  IF r2.threw THEN [threw |-> TRUE, sent |-> <<>>]
        ELSE [threw |-> FALSE, sent |-> respond(r4, query)]

\* a catch block that logs and writes nothing
searchCatch_Swallows(try) == try.sent

\* index.js:105-112, the catch block
searchCatch(try) ==
    IF try.threw THEN Append(try.sent, searchErrorResponse) ELSE try.sent

\* the responses the /search handler writes
searchHandler(data, query) == searchCatch(searchTry(data, query))

----------------------------------------------------------------------------
(* GET /categories *)

\* index.js:122-125
categoriesResponse(categories) ==
    Response(200, {"success", "categories"}, TRUE, "", 0, NoQuery, <<>>,
             categories)

\* index.js:128-132
categoriesErrorResponse ==
    Response(500, {"success", "error", "categories"}, FALSE,
             "Internal server error", 0, NoQuery, <<>>, <<>>)

\* index.js:120-125, the try block; getCategories raises on no store of
\* records
categoriesTry(data) ==
    [threw |-> FALSE, sent |-> <<categoriesResponse(getCategories(data))>>]

\* index.js:126-133, the catch block
categoriesCatch(try) ==
    IF try.threw THEN Append(try.sent, categoriesErrorResponse) ELSE try.sent

categoriesHandler(data) == categoriesCatch(categoriesTry(data))

----------------------------------------------------------------------------
(* Requests *)

\* values of q: absent, empty, upper and lower case, two characters that
\* occur adjacent, apart or reversed in a name, a repeated parameter
QValues ==
    { Undefined, Str(<<>>), Str(<<"B">>), Str(<<"a", "b">>),
      Str(<<"a", "a">>), Str(<<"b", "a">>), Arr }

\* values of category: absent, empty, the sentinel, the sentinel in upper
\* case, a category, a prefix of a category, a repeated parameter
CategoryValues ==
    { Undefined, Str(<<>>), Str(<<"a", "l", "l">>), Str(<<"A", "L", "L">>),
      Str(<<"a", "b">>), Str(<<"a">>), Arr }

\* values of minPrice and maxPrice: absent, empty, not a number, numbers of
\* one and two digits, a number followed by a letter
PriceValues ==
    { Undefined, Str(<<>>), Str(<<"a">>), Str(<<"1">>), Str(<<"2">>),
      Str(<<"1", "2">>), Str(<<"2", "a">>) }

Queries ==
    [q : QValues, category : CategoryValues, minPrice : PriceValues,
     maxPrice : PriceValues]

NoRequest == [path |-> "none", query |-> NoQuery]

----------------------------------------------------------------------------
(* The client page (src/frontend/src/pages/index.tsx) *)

All == <<"a", "l", "l">>

\* the initial form and search parameters (index.tsx:59-69)
EmptyParams ==
    [searchQuery |-> <<>>, category |-> All, minPrice |-> <<>>,
     maxPrice |-> <<>>]

\* texts typed into the name field and the two price fields
FormQueries == { <<>>, <<"a", "b">> }
FormPrices == { <<>>, <<"2">>, <<"1", "2">> }

\* retry: 1 of the inventory query (index.tsx:92)
InventoryRetry == 1

\* the categories query sets no retry option: the library retries 3 times
CategoriesRetry == 3

\* a > b on parseFloat results: false when either is NaN
jsGreater(a, b) == ~isNaN(a) /\ ~isNaN(b) /\ a.num > b.num

\* searchInventory appending category whenever it is not empty
queryParams_SendsAll(params) ==
    [q |-> IF params.searchQuery # <<>> THEN Str(params.searchQuery)
           ELSE Undefined,
     category |-> IF params.category # <<>> THEN Str(params.category)
                  ELSE Undefined,
     minPrice |-> IF params.minPrice # <<>> THEN Str(params.minPrice)
                  ELSE Undefined,
     maxPrice |-> IF params.maxPrice # <<>> THEN Str(params.maxPrice)
                  ELSE Undefined]

\* the request searchInventory sends: the parameters appended to
\* URLSearchParams, as the server reads them from req.query
\* (index.tsx:43-47)
queryParams(params) ==
    [q |-> IF params.searchQuery # <<>> THEN Str(params.searchQuery)
           ELSE Undefined,
     category |-> IF params.category # <<>> /\ params.category # All
                  THEN Str(params.category) ELSE Undefined,
     minPrice |-> IF params.minPrice # <<>> THEN Str(params.minPrice)
                  ELSE Undefined,
     maxPrice |-> IF params.maxPrice # <<>> THEN Str(params.maxPrice)
                  ELSE Undefined]

\* the outcome of a query function: a value, or an Error with a message
Resolved(data) == [ok |-> TRUE, data |-> data, error |-> ""]
Rejected(message) == [ok |-> FALSE, data |-> <<>>, error |-> message]

\* axios.get: rejects when there is no response or the status is not 2xx
axiosGet(reached, responses) ==
    IF ~reached \/ responses = <<>> THEN Rejected("Network Error")
    ELSE IF responses[1].status < 200 \/ responses[1].status >= 300
         THEN Rejected("Request failed")
    ELSE [ok |-> TRUE, data |-> responses[1], error |-> ""]

\* searchInventory after axios.get (index.tsx:49-55)
searchInventory(reached, responses) ==
    LET got == axiosGet(reached, responses)
    IN  IF ~got.ok THEN Rejected(got.error)
        ELSE IF "success" \in got.data.keys /\ got.data.success = FALSE
             THEN Rejected(IF got.data.error # "" THEN got.data.error
                           ELSE "Search failed")
        ELSE Resolved(IF "results" \in got.data.keys THEN got.data.results
                      ELSE <<>>)

\* fetchCategories (index.tsx:37-40)
fetchCategories(reached, responses) ==
    LET got == axiosGet(reached, responses)
    IN  IF ~got.ok THEN Rejected(got.error)
        ELSE Resolved(IF "categories" \in got.data.keys
                      THEN got.data.categories ELSE <<>>)

\* the state a query observer reports
QueryState(status, fetchStatus, failureCount, hasData, data, error) ==
    [status |-> status, fetchStatus |-> fetchStatus,
     failureCount |-> failureCount, hasData |-> hasData, data |-> data,
     error |-> error]

\* a query with no cached data starting its first fetch
FirstFetch == QueryState("pending", "fetching", 0, FALSE, <<>>, "")

\* the library retries while the failure count has not passed the limit
shouldRetry_OneMore(failureCount, retry) == failureCount <= retry + 1

shouldRetry(failureCount, retry) == failureCount <= retry

\* a query after its function resolved
afterSuccess(query, data) == QueryState("success", "idle", 0, TRUE, data, "")

\* a query after its function rejected: retried, or settled in error with
\* the data it had
afterFailure(query, message, retry) ==
    IF shouldRetry(query.failureCount + 1, retry)
    THEN [query EXCEPT !.failureCount = @ + 1]
    ELSE [query EXCEPT !.status = "error", !.fetchStatus = "idle",
                       !.failureCount = @ + 1, !.error = message]

\* what Home reads from the queries and renders (index.tsx:76-93, 139-140)
isLoading == inventoryQuery.status = "pending"
                 /\ inventoryQuery.fetchStatus = "fetching"
isFetching == inventoryQuery.fetchStatus = "fetching"
results == IF inventoryQuery.hasData THEN inventoryQuery.data ELSE <<>>
categories == IF categoriesQuery.hasData THEN categoriesQuery.data ELSE <<>>
errorMessage ==
    IF validationError # "" THEN validationError ELSE inventoryQuery.error

\* the results section shown although a refetch is under way
showResults_IgnoresFetching == ~isLoading

showResults == ~isLoading /\ ~isFetching
loadingPanel == isLoading \/ isFetching

\* the buttons disabled during the first load only, not during a refetch
buttonsDisabled_LoadingOnly == isLoading

buttonsDisabled == isLoading \/ isFetching

\* the options of the category select (index.tsx:212-217)
categoryOptions == {All} \cup { categories[i] : i \in DOMAIN categories }

\* the validation comparing the texts instead of the numbers
priceRangeRejected_RawStrings(minPrice, maxPrice) ==
    minPrice # <<>> /\ maxPrice # <<>> /\ StringLess(maxPrice, minPrice)

\* handleSearch's validation (index.tsx:99)
priceRangeRejected(minPrice, maxPrice) ==
    /\ minPrice # <<>> /\ maxPrice # <<>>
    /\ jsGreater(parseFloat(Str(minPrice)), parseFloat(Str(maxPrice)))

NoSearch == [sent |-> FALSE, query |-> NoQuery]
SearchRequest(params) == [sent |-> TRUE, query |-> queryParams(params)]

NoCache == [state |-> "none", data |-> <<>>]

----------------------------------------------------------------------------
(* The server *)

\* the dataset is loaded once, before the server listens (index.js:14-16)
Init ==
    /\ inventoryData \in Stores
    /\ req = NoRequest
    /\ sent = <<>>
    /\ fault = FALSE
    /\ loaded = inventoryData
    /\ form = EmptyParams
    /\ searchParams = EmptyParams
    /\ validationError = ""
    /\ inventoryQuery = FirstFetch
    /\ categoriesQuery = FirstFetch
    /\ cachedEmpty = NoCache
    /\ searchInFlight = NoSearch
    /\ attempts = 0

\* app.get('/search', ...): one request handled to completion
Search(query) ==
    /\ req.path = "none"
    /\ req' = [path |-> "/search", query |-> query]
    /\ sent' = searchHandler(inventoryData, query)
    /\ fault' = searchTry(inventoryData, query).threw
    /\ inventoryData' = storeAfterSearch(inventoryData, query)
    /\ UNCHANGED <<loaded, clientVars>>

\* app.get('/categories', ...)
Categories ==
    /\ req.path = "none"
    /\ req' = [path |-> "/categories", query |-> NoQuery]
    /\ sent' = categoriesHandler(inventoryData)
    /\ fault' = categoriesTry(inventoryData).threw
    /\ inventoryData' = storeAfterCategories(inventoryData)
    /\ UNCHANGED <<loaded, clientVars>>

\* the response is complete; req and res are dropped and the single thread
\* takes the next request
RequestEnd ==
    /\ req.path # "none"
    /\ req' = NoRequest
    /\ sent' = <<>>
    /\ fault' = FALSE
    /\ UNCHANGED <<inventoryData, loaded, clientVars>>

Next ==
    \/ \E query \in Queries : Search(query)
    \/ Categories
    \/ RequestEnd

Spec == Init /\ [][Next]_vars

----------------------------------------------------------------------------
(* The page and its two queries, against a server holding ClientStore *)

\* the dataset of the server the page talks to
ClientStore ==
    << Rec(2, <<"a", "b">>, <<"a", "b">>, 2),
       Rec(4, <<"B", "a">>, <<"a", "b">>, 2) >>

\* the page after its first render: both queries fetching (index.tsx:76-93)
InitClient ==
    /\ inventoryData = ClientStore
    /\ loaded = ClientStore
    /\ req = NoRequest
    /\ sent = <<>>
    /\ fault = FALSE
    /\ form = EmptyParams
    /\ searchParams = EmptyParams
    /\ validationError = ""
    /\ inventoryQuery = FirstFetch
    /\ categoriesQuery = FirstFetch
    /\ cachedEmpty = NoCache
    /\ searchInFlight = SearchRequest(EmptyParams)
    /\ attempts = 1

\* the inventory query observing the key ['inventory', new]: nothing
\* happens when the key is the one observed; else the entry of the empty
\* key is kept in the cache when left, and the new key is served from a
\* fresh entry, refetched over a stale one, or fetched for the first time
Observe(new) ==
    IF new = searchParams
    THEN UNCHANGED <<searchParams, inventoryQuery, cachedEmpty,
                     searchInFlight, attempts>>
    ELSE /\ searchParams' = new
         /\ cachedEmpty' =
               IF searchParams = EmptyParams
                    /\ inventoryQuery.status = "success"
                    /\ inventoryQuery.fetchStatus = "idle"
               THEN [state |-> "fresh", data |-> inventoryQuery.data]
               ELSE IF new = EmptyParams THEN NoCache
               ELSE cachedEmpty
         /\ IF new = EmptyParams /\ cachedEmpty.state = "fresh"
            THEN /\ inventoryQuery' =
                       QueryState("success", "idle", 0, TRUE,
                                  cachedEmpty.data, "")
                 /\ searchInFlight' = NoSearch
                 /\ attempts' = 0
            ELSE /\ inventoryQuery' =
                       IF new = EmptyParams /\ cachedEmpty.state = "stale"
                       THEN QueryState("success", "fetching", 0, TRUE,
                                       cachedEmpty.data, "")
                       ELSE FirstFetch
                 /\ searchInFlight' = SearchRequest(new)
                 /\ attempts' = 1

\* an onChange handler also setting the search parameters (search as you
\* type)
paramsAfterChange_Live(params, newForm) == newForm

\* searchParams after an onChange handler: setSearchQuery, setCategory,
\* setMinPrice and setMaxPrice write the form state only
\* (index.tsx:189, 209, 241, 263)
paramsAfterChange(params, newForm) == params

Change(field, value) ==
    /\ form' = [form EXCEPT ![field] = value]
    /\ Observe(paramsAfterChange(searchParams, form'))
    /\ UNCHANGED <<validationError, categoriesQuery, serverVars>>

SetSearchQuery ==
    \E v \in FormQueries : v # form.searchQuery /\ Change("searchQuery", v)

SetCategory ==
    \E v \in categoryOptions : v # form.category /\ Change("category", v)

SetMinPrice ==
    \E v \in FormPrices : v # form.minPrice /\ Change("minPrice", v)

SetMaxPrice ==
    \E v \in FormPrices : v # form.maxPrice /\ Change("maxPrice", v)

\* handleSearch without the return after setValidationError
handleSearch_NoReturn(f, params) ==
    IF priceRangeRejected(f.minPrice, f.maxPrice)
    THEN [validationError |->
              "Minimum price cannot be greater than maximum price",
          searchParams |-> f]
    ELSE [validationError |-> "", searchParams |-> f]

\* handleSearch (index.tsx:96-112): the validation error and the search
\* parameters it leaves
handleSearch(f, params) ==
    IF priceRangeRejected(f.minPrice, f.maxPrice)
    THEN [validationError |->
              "Minimum price cannot be greater than maximum price",
          searchParams |-> params]
    ELSE [validationError |-> "", searchParams |-> f]

\* the Search button, enabled when no fetch is under way (index.tsx:274)
HandleSearch ==
    /\ ~buttonsDisabled
    /\ LET h == handleSearch(form, searchParams)
       IN  /\ validationError' = h.validationError
           /\ Observe(h.searchParams)
    /\ UNCHANGED <<form, categoriesQuery, serverVars>>

\* handleReset (index.tsx:115-129)
handleReset(f, error) ==
    [form |-> EmptyParams, validationError |-> "",
     searchParams |-> EmptyParams]

\* the Reset button, enabled when no fetch is under way (index.tsx:296)
HandleReset ==
    /\ ~buttonsDisabled
    /\ LET h == handleReset(form, validationError)
       IN  /\ form' = h.form
           /\ validationError' = h.validationError
           /\ Observe(h.searchParams)
    /\ UNCHANGED <<categoriesQuery, serverVars>>

\* the /search request in flight ends: the server answered it, or it was
\* not reached; the query settles or sends the request again
SearchResponse(reached) ==
    /\ searchInFlight.sent
    /\ LET out == searchInventory(reached,
                      searchHandler(inventoryData, searchInFlight.query))
           next == IF out.ok THEN afterSuccess(inventoryQuery, out.data)
                   ELSE afterFailure(inventoryQuery, out.error,
                                     InventoryRetry)
       IN  /\ inventoryQuery' = next
           /\ IF next.fetchStatus = "fetching"
              THEN attempts' = attempts + 1 /\ UNCHANGED searchInFlight
              ELSE searchInFlight' = NoSearch /\ UNCHANGED attempts
    /\ UNCHANGED <<form, searchParams, validationError, categoriesQuery,
                   cachedEmpty, serverVars>>

\* the /categories request in flight ends
CategoriesResponse(reached) ==
    /\ categoriesQuery.fetchStatus = "fetching"
    /\ LET out == fetchCategories(reached, categoriesHandler(inventoryData))
       IN  categoriesQuery' =
               IF out.ok THEN afterSuccess(categoriesQuery, out.data)
               ELSE afterFailure(categoriesQuery, out.error, CategoriesRetry)
    /\ UNCHANGED <<form, searchParams, validationError, inventoryQuery,
                   cachedEmpty, searchInFlight, attempts, serverVars>>

\* staleTime (30 s) passes over the cached entry of the empty key
StaleTimeElapses ==
    /\ cachedEmpty.state = "fresh"
    /\ cachedEmpty' = [cachedEmpty EXCEPT !.state = "stale"]
    /\ UNCHANGED <<form, searchParams, validationError, inventoryQuery,
                   categoriesQuery, searchInFlight, attempts, serverVars>>

NextClient ==
    \/ SetSearchQuery
    \/ SetCategory
    \/ SetMinPrice
    \/ SetMaxPrice
    \/ HandleSearch
    \/ HandleReset
    \/ \E reached \in BOOLEAN : SearchResponse(reached)
    \/ \E reached \in BOOLEAN : CategoriesResponse(reached)
    \/ StaleTimeElapses

SpecClient == InitClient /\ [][NextClient]_vars

----------------------------------------------------------------------------
(* Vocabulary of the properties, stated without the handler's operators *)

\* two characters equal up to letter case
SameLetter(c, d) ==
    \/ c = d
    \/ {c, d} \in {{"a", "A"}, {"b", "B"}, {"l", "L"}}

\* text b is text a up to letter case
EqualIgnoringCase(a, b) ==
    /\ Len(a) = Len(b)
    /\ \A j \in 1..Len(a) : SameLetter(a[j], b[j])

\* q occurs in name as a contiguous run of characters, up to letter case
OccursIgnoringCase(q, name) ==
    \E i \in 1..(Len(name) - Len(q) + 1) :
        \A j \in 1..Len(q) : SameLetter(name[i + j - 1], q[j])

\* a parameter that carries a text value (absent or a single string)
Textual(p) == p.kind \in {"undefined", "string"}

\* the criteria a query supplies
NameSupplied(query) == query.q.kind = "string" /\ query.q.val # <<>>
CategorySupplied(query) ==
    /\ query.category.kind = "string"
    /\ query.category.val \notin {<<>>, <<"a", "l", "l">>}
MinSupplied(query) ==
    query.minPrice.kind = "string" /\ ~isNaN(parseFloat(query.minPrice))
MaxSupplied(query) ==
    query.maxPrice.kind = "string" /\ ~isNaN(parseFloat(query.maxPrice))

MinOf(query) == parseFloat(query.minPrice).num
MaxOf(query) == parseFloat(query.maxPrice).num

\* the request fails validation: both bounds are numbers, minimum above
\* maximum
FailsValidation(query) ==
    MinSupplied(query) /\ MaxSupplied(query) /\ MinOf(query) > MaxOf(query)

\* a record satisfies each criterion of a query, an absent one always
NameOk(x, query) ==
    NameSupplied(query) => OccursIgnoringCase(query.q.val, x.product_name)
CategoryOk(x, query) ==
    CategorySupplied(query) => EqualIgnoringCase(query.category.val, x.category)
MinOk(x, query) == MinSupplied(query) => x.price >= MinOf(query)
MaxOk(x, query) == MaxSupplied(query) => x.price <= MaxOf(query)

Elements(s) == { s[i] : i \in DOMAIN s }

\* r is s with some elements left out: same records, same relative order
IsSubsequence(r, s) ==
    \E f \in [1..Len(r) -> 1..Len(s)] :
        /\ \A i \in 1..Len(r) : r[i] = s[f[i]]
        /\ \A i, j \in 1..Len(r) : i < j => f[i] < f[j]

\* a /search request with text-valued q and category has been handled
SearchHandled ==
    /\ req.path = "/search"
    /\ Textual(req.query.q) /\ Textual(req.query.category)

\* the query with one criterion only
OnlyQ(query) ==
    [q |-> query.q, category |-> Undefined, minPrice |-> Undefined,
     maxPrice |-> Undefined]
OnlyCategory(query) ==
    [q |-> Undefined, category |-> query.category, minPrice |-> Undefined,
     maxPrice |-> Undefined]
OnlyMin(query) ==
    [q |-> Undefined, category |-> Undefined, minPrice |-> query.minPrice,
     maxPrice |-> Undefined]
OnlyMax(query) ==
    [q |-> Undefined, category |-> Undefined, minPrice |-> Undefined,
     maxPrice |-> query.maxPrice]

ResultsOf(query) == Elements(searchHandler(inventoryData, query)[1].results)

----------------------------------------------------------------------------
(* Properties *)

\* C1: for every store and every text-valued q, category, minPrice and
\* maxPrice that do not fail validation, a record is in the /search results
\* if and only if it satisfies every supplied criterion, the results of the
\* combined request are the intersection of the results of the four
\* single-criterion requests, and an absent criterion imposes no constraint.
C1_ResultsAreConjunctionOfCriteria ==
    (SearchHandled /\ ~FailsValidation(req.query)) =>
        /\ Len(sent) = 1 /\ sent[1].success
        /\ \A x \in Elements(inventoryData) :
              (x \in Elements(sent[1].results)) <=>
                  /\ NameOk(x, req.query)
                  /\ CategoryOk(x, req.query)
                  /\ MinOk(x, req.query)
                  /\ MaxOk(x, req.query)
        /\ Elements(sent[1].results) =
              ResultsOf(OnlyQ(req.query)) \cap ResultsOf(OnlyCategory(req.query))
                \cap ResultsOf(OnlyMin(req.query)) \cap ResultsOf(OnlyMax(req.query))

\* C1 witness: all four criteria supplied, one record kept and one dropped
C1_Witness ==
    /\ SearchHandled /\ ~FailsValidation(req.query)
    /\ NameSupplied(req.query) /\ CategorySupplied(req.query)
    /\ MinSupplied(req.query) /\ MaxSupplied(req.query)
    /\ Len(sent) = 1 /\ Len(sent[1].results) = 1
    /\ Len(inventoryData) = 2

\* C2: the results list of a successful /search response is a subsequence
\* of the store: every returned record is a store record, none appears more
\* often than in the store, and the relative order is the store's.
C2_ResultsAreSubsequenceOfStore ==
    (req.path = "/search" /\ Len(sent) >= 1 /\ sent[1].success) =>
        IsSubsequence(sent[1].results, inventoryData)

\* C2 witness: two records returned by a request that filters
C2_Witness ==
    /\ req.path = "/search" /\ Len(sent) = 1 /\ sent[1].success
    /\ NameSupplied(req.query) /\ CategorySupplied(req.query)
    /\ Len(sent[1].results) = 2

Unparsable(p) == p.kind = "string" /\ p.val # <<>> /\ isNaN(parseFloat(p))

\* C4: a minPrice or maxPrice that does not parse as a number is treated as
\* absent: the response is the success response, it holds every record that
\* passes the name and category criteria and the other bound when that one
\* parses, and the 400 response is sent only when both values parse.
C4_UnparsablePriceIsAbsent ==
    SearchHandled =>
        /\ (Unparsable(req.query.minPrice) \/ Unparsable(req.query.maxPrice)) =>
              /\ Len(sent) = 1 /\ sent[1].status = 200 /\ sent[1].success
              /\ sent[1].results =
                    SelectSeq(inventoryData,
                              LAMBDA x : /\ NameOk(x, req.query)
                                         /\ CategoryOk(x, req.query)
                                         /\ MinOk(x, req.query)
                                         /\ MaxOk(x, req.query))
        /\ (Len(sent) >= 1 /\ sent[1].status = 400) =>
              (MinSupplied(req.query) /\ MaxSupplied(req.query))

\* C4 witness: an unparsable minimum beside a maximum that parses and
\* removes one of two records
C4_Witness ==
    /\ SearchHandled
    /\ Unparsable(req.query.minPrice) /\ MaxSupplied(req.query)
    /\ Len(sent) = 1 /\ sent[1].status = 200
    /\ Len(sent[1].results) = 1 /\ Len(inventoryData) = 2

\* C5: the price bounds are inclusive at both ends: with parsable min and
\* max where min <= max, /search returns exactly the records, among those
\* passing the other criteria, with min <= price <= max; min = max is a
\* valid range returning the records priced exactly at that value.
C5_PriceBoundsInclusive ==
    (/\ SearchHandled
     /\ MinSupplied(req.query) /\ MaxSupplied(req.query)
     /\ MinOf(req.query) <= MaxOf(req.query)) =>
        /\ Len(sent) = 1 /\ sent[1].status = 200 /\ sent[1].success
        /\ sent[1].results =
              SelectSeq(inventoryData,
                        LAMBDA x : /\ NameOk(x, req.query)
                                   /\ CategoryOk(x, req.query)
                                   /\ MinOf(req.query) <= x.price
                                   /\ x.price <= MaxOf(req.query))

\* C5 witness: min = max, and a record priced at that value is returned
C5_Witness ==
    /\ SearchHandled
    /\ MinSupplied(req.query) /\ MaxSupplied(req.query)
    /\ MinOf(req.query) = MaxOf(req.query)
    /\ Len(sent) = 1 /\ sent[1].status = 200
    /\ \E i \in DOMAIN sent[1].results :
          sent[1].results[i].price = MinOf(req.query)
    /\ \E i \in DOMAIN inventoryData :
          inventoryData[i].price # MinOf(req.query)

\* C6: a /search request whose category is the sentinel "all" gets the
\* response (status, success, count, results) of the same request with no
\* category parameter, for every value of the other parameters.
C6_SentinelAllIsNoCategory ==
    (req.path = "/search" /\ req.query.category = Str(<<"a", "l", "l">>)) =>
        LET other ==
                searchHandler(inventoryData,
                              [req.query EXCEPT !.category = Undefined])
        IN  /\ Len(sent) = Len(other)
            /\ \A i \in DOMAIN sent :
                  /\ sent[i].status = other[i].status
                  /\ sent[i].success = other[i].success
                  /\ sent[i].count = other[i].count
                  /\ sent[i].results = other[i].results

\* C6 witness: category "all" on a store holding a record of another
\* category, which is returned
C6_Witness ==
    /\ req.path = "/search" /\ req.query.category = Str(<<"a", "l", "l">>)
    /\ Len(sent) = 1 /\ sent[1].success
    /\ \E i \in DOMAIN sent[1].results :
          sent[1].results[i].category # <<"a", "l", "l">>

\* no criterion but the one named
OnlyNameGiven(query) ==
    /\ Textual(query.q)
    /\ query.category = Undefined
    /\ query.minPrice = Undefined /\ query.maxPrice = Undefined
OnlyCategoryGiven(query) ==
    /\ Textual(query.category)
    /\ query.q = Undefined
    /\ query.minPrice = Undefined /\ query.maxPrice = Undefined

\* C7: the name criterion q matches a record exactly when q, compared
\* without regard to letter case, occurs as a contiguous substring of the
\* record's product name; an empty or absent q matches every record.
C7_NameIsCaseInsensitiveSubstring ==
    (req.path = "/search" /\ OnlyNameGiven(req.query)) =>
        /\ Len(sent) = 1 /\ sent[1].success
        /\ sent[1].results =
              IF req.query.q \in {Undefined, Str(<<>>)} THEN inventoryData
              ELSE SelectSeq(inventoryData,
                             LAMBDA x : OccursIgnoringCase(req.query.q.val,
                                                           x.product_name))

\* C7 witness: a q in another case than the name it occurs in is matched,
\* and a record whose name does not hold q is dropped
C7_Witness ==
    /\ req.path = "/search" /\ OnlyNameGiven(req.query)
    /\ NameSupplied(req.query)
    /\ Len(sent) = 1 /\ Len(inventoryData) = 2 /\ Len(sent[1].results) = 1
    /\ ~includes(sent[1].results[1].product_name, req.query.q.val)

\* C8: a category criterion other than the sentinel matches a record
\* exactly when it equals the record's whole category ignoring letter case;
\* a value that is only a substring or prefix of a record's category does
\* not match it.
C8_CategoryIsCaseInsensitiveEquality ==
    (/\ req.path = "/search" /\ OnlyCategoryGiven(req.query)
     /\ CategorySupplied(req.query)) =>
        /\ Len(sent) = 1 /\ sent[1].success
        /\ sent[1].results =
              SelectSeq(inventoryData,
                        LAMBDA x : EqualIgnoringCase(req.query.category.val,
                                                     x.category))
        /\ \A x \in Elements(inventoryData) :
              Len(x.category) # Len(req.query.category.val) =>
                  x \notin Elements(sent[1].results)

\* C8 witness: the criterion is a proper prefix, up to case, of the
\* category of a store record, and nothing is returned
C8_Witness ==
    /\ req.path = "/search" /\ OnlyCategoryGiven(req.query)
    /\ CategorySupplied(req.query)
    /\ \E x \in Elements(inventoryData) :
          /\ Len(x.category) > Len(req.query.category.val)
          /\ OccursIgnoringCase(req.query.category.val, x.category)
    /\ Len(sent) = 1 /\ sent[1].results = <<>>

\* C9: a /search request with no parameters returns success true with
\* every record of the store in store order, and count equal to the store
\* size.
C9_EmptyQueryReturnsStore ==
    (/\ req.path = "/search"
     /\ req.query = [q |-> Undefined, category |-> Undefined,
                     minPrice |-> Undefined, maxPrice |-> Undefined]) =>
        /\ Len(sent) = 1
        /\ sent[1].status = 200 /\ sent[1].success
        /\ sent[1].results = inventoryData
        /\ sent[1].count = Len(inventoryData)

\* C9 witness: no parameters, a store of two records
C9_Witness ==
    /\ req.path = "/search"
    /\ req.query = [q |-> Undefined, category |-> Undefined,
                    minPrice |-> Undefined, maxPrice |-> Undefined]
    /\ Len(inventoryData) = 2 /\ Len(sent) = 1 /\ sent[1].count = 2

\* C10: a fault raised while /search or /categories assembles its response
\* is answered with HTTP 500, success false, a generic error text and an
\* empty results (or categories) list; no response with success false
\* carries a non-empty list; exactly one response is sent per request.
C10_FaultAnswers500 ==
    req.path # "none" =>
        /\ Len(sent) = 1
        /\ fault =>
              /\ sent[1].status = 500
              /\ ~sent[1].success
              /\ sent[1].error = "Internal server error"
              /\ sent[1].results = <<>> /\ sent[1].categories = <<>>
              /\ (IF req.path = "/search" THEN "results" ELSE "categories")
                    \in sent[1].keys
        /\ ~sent[1].success =>
              sent[1].results = <<>> /\ sent[1].categories = <<>>

\* C10 witness: a repeated category parameter meets a record that passed
\* the name filter, and the handler raises
C10_Witness ==
    /\ req.path = "/search" /\ fault
    /\ NameSupplied(req.query) /\ req.query.category = Arr
    /\ Len(sent) = 1 /\ sent[1].status = 500

\* a before b, code unit by code unit: at the first position where they
\* differ a has the smaller code unit, or a is a proper prefix of b
LexBefore(a, b) ==
    \/ /\ Len(a) < Len(b)
       /\ \A k \in 1..Len(a) : a[k] = b[k]
    \/ \E k \in 1..Len(a) :
          /\ k <= Len(b)
          /\ \A j \in 1..(k - 1) : a[j] = b[j]
          /\ CharCode(a[k]) < CharCode(b[k])

\* C11: /categories returns success true with the distinct category values
\* of the store: every category of some record appears exactly once, no
\* other value appears, and the list is in ascending lexicographic order.
C11_CategoriesDistinctSorted ==
    req.path = "/categories" =>
        /\ Len(sent) = 1 /\ sent[1].status = 200 /\ sent[1].success
        /\ "categories" \in sent[1].keys
        /\ Elements(sent[1].categories) =
              { x.category : x \in Elements(inventoryData) }
        /\ \A i, j \in DOMAIN sent[1].categories :
              i < j => LexBefore(sent[1].categories[i], sent[1].categories[j])

\* C11 witness: two records whose categories are stored in descending
\* order are listed in ascending order
C11_Witness ==
    /\ req.path = "/categories" /\ Len(sent) = 1
    /\ Len(inventoryData) = 2 /\ Len(sent[1].categories) = 2
    /\ LexBefore(inventoryData[2].category, inventoryData[1].category)
    /\ sent[1].categories[1] = inventoryData[2].category

\* C12: the store is read-only after load: after any sequence of /search
\* and /categories requests, successful or failing, it holds the records
\* it was loaded with in the same order, so the response to a request is
\* the response the freshly loaded store gives to the same parameters.
C12_StoreReadOnly ==
    /\ inventoryData = loaded
    /\ req.path = "/search" => sent = searchHandler(loaded, req.query)
    /\ req.path = "/categories" => sent = categoriesHandler(loaded)

\* C12 witness: a /search request answered from a store of two records
\* whose categories are not in sorted order
C12_Witness ==
    /\ req.path = "/search" /\ Len(sent) = 1 /\ sent[1].success
    /\ Len(inventoryData) = 2 /\ Len(sent[1].results) = 2
    /\ LexBefore(inventoryData[2].category, inventoryData[1].category)

\* a parameter that is absent or the empty string
AbsentOrEmpty(p) == p = Undefined \/ p = Str(<<>>)

\* C20: every successful /search response echoes the four request
\* parameters in its query field, each as the value supplied or null when
\* the parameter is absent or empty, and its count equals the length of
\* its results list.
C20_SuccessEchoesQuery ==
    (req.path = "/search" /\ Len(sent) >= 1 /\ sent[1].success) =>
        /\ {"count", "query", "results"} \subseteq sent[1].keys
        /\ \A k \in {"q", "category", "minPrice", "maxPrice"} :
              sent[1].query[k] =
                  IF AbsentOrEmpty(req.query[k]) THEN Null ELSE req.query[k]
        /\ sent[1].count = Len(sent[1].results)

\* C20 witness: one parameter absent, one empty, two supplied, and a
\* record returned
C20_Witness ==
    /\ req.path = "/search" /\ Len(sent) = 1 /\ sent[1].success
    /\ req.query.q = Undefined /\ req.query.category = Str(<<>>)
    /\ MinSupplied(req.query) /\ MaxSupplied(req.query)
    /\ sent[1].count = 1

----------------------------------------------------------------------------
(* Properties of the page *)

\* C13: the client performs at most one automatic retry of a failed search
\* request: for one set of search parameters at most two search requests
\* are sent before the outcome is settled, and if both fail the error
\* message is surfaced to the user.
C13_AtMostOneRetry ==
    /\ [](/\ attempts <= 2
          /\ inventoryQuery.status = "error" =>
                /\ attempts = 2
                /\ ~searchInFlight.sent
                /\ inventoryQuery.fetchStatus = "idle"
                /\ errorMessage # "")
    /\ [][(inventoryQuery.status # "error" /\ inventoryQuery'.status = "error")
            => (errorMessage' = inventoryQuery'.error
                  /\ inventoryQuery'.error # "")]_vars

\* C13 witness: the request and its one retry failed, the message is shown
C13_Witness ==
    /\ inventoryQuery.status = "error" /\ attempts = 2
    /\ errorMessage = "Network Error"

\* C14 as claimed: the results section is rendered only after the
\* categories fetch and the search fetch have both completed.
C14_ResultsAfterBothFetches ==
    showResults =>
        (categoriesQuery.fetchStatus = "idle" /\ ~searchInFlight.sent)

\* C14, amended: the categories fetch and the search fetch complete in
\* either order; the results section is rendered only when no search
\* request is outstanding and the search query has settled, whether or not
\* the categories fetch has completed.
C14_ResultsAfterSearchFetch ==
    showResults =>
        /\ ~searchInFlight.sent
        /\ inventoryQuery.status \in {"success", "error"}

\* C14 witness: the search fetch completed first; the results section is
\* rendered while the categories fetch is still under way
C14_Witness ==
    /\ showResults /\ inventoryQuery.status = "success"
    /\ categoriesQuery.fetchStatus = "fetching"

\* C15: every failing /search or /categories request gets a response with
\* success false and an error text, and every failed fetch of the client,
\* for search results or for categories, ends with an error message shown
\* to the user.
C15_AllFailuresReported ==
    /\ \A i \in DOMAIN sent : ~sent[i].success => sent[i].error # ""
    /\ inventoryQuery.status = "error" => errorMessage # ""
    /\ categoriesQuery.status = "error" => errorMessage # ""

\* a step of one of the four onChange handlers
FieldEdited == SetSearchQuery \/ SetCategory \/ SetMinPrice \/ SetMaxPrice

\* a price text of the form as a number (the form's prices are digits)
PriceNumber(s) == DecimalValue(s)

\* both price fields filled and the minimum greater than the maximum
MinAboveMax(f) ==
    /\ f.minPrice # <<>> /\ f.maxPrice # <<>>
    /\ PriceNumber(f.minPrice) > PriceNumber(f.maxPrice)

\* C16: editing the form fields changes only the form state: it never
\* changes the search parameters and never triggers a search request; the
\* search parameters change only on Search, after validation passes, or on
\* Reset.
C16_EditingChangesFormOnly ==
    [][/\ FieldEdited =>
             UNCHANGED <<searchParams, validationError, inventoryQuery,
                         categoriesQuery, cachedEmpty, searchInFlight,
                         attempts>>
       /\ searchParams' # searchParams =>
             \/ HandleReset
             \/ HandleSearch /\ ~MinAboveMax(form)
       /\ (searchInFlight'.sent /\ searchInFlight' # searchInFlight) =>
             (HandleSearch \/ HandleReset)]_vars

\* C16 witness: the form was edited, the search parameters are the ones of
\* the last search and no request is outstanding
C16_Witness ==
    /\ form.searchQuery # searchParams.searchQuery
    /\ form.minPrice # searchParams.minPrice
    /\ ~searchInFlight.sent /\ inventoryQuery.status = "success"

\* C17: when Search is pressed with both price fields filled and the
\* minimum greater than the maximum, the validation error is set and the
\* search parameters stay, so no request is sent and the results fetched
\* before stay in place; when validation passes the validation error is
\* cleared and the search parameters become the form values.
C17_SearchValidates ==
    [][HandleSearch =>
          IF MinAboveMax(form)
          THEN /\ validationError' # ""
               /\ UNCHANGED <<searchParams, inventoryQuery, searchInFlight,
                              attempts, form>>
          ELSE /\ validationError' = ""
               /\ searchParams' = form]_vars

\* C17 witness: the form holds a minimum above the maximum, the validation
\* error is shown over the results of the search before
C17_Witness ==
    /\ MinAboveMax(form) /\ validationError # ""
    /\ searchParams # form /\ searchParams # EmptyParams
    /\ ~searchInFlight.sent /\ showResults /\ Len(results) = 1

\* C18: from any state of the form, pressing Reset clears the four form
\* fields and the validation error, sets the search parameters to the
\* empty-filter values, and triggers a new API call with empty filters,
\* after which all products of the store are displayed.
C18_ResetTriggersFetch ==
    [][HandleReset =>
          /\ form' = EmptyParams
          /\ validationError' = ""
          /\ searchParams' = EmptyParams
          /\ searchInFlight'.sent
          /\ searchInFlight'.query =
                [q |-> Undefined, category |-> Undefined,
                 minPrice |-> Undefined, maxPrice |-> Undefined]
          /\ attempts' = 1]_vars

\* the parameter sent for a form text: absent when the text is empty
SentFor(text) == IF text = <<>> THEN Undefined ELSE Str(text)

\* C19: the search request built by the client carries exactly the
\* parameters that have values: q, minPrice and maxPrice only when
\* non-empty, category only when non-empty and not "all"; with the empty
\* form the request is /search with no parameters, which returns all
\* products.
C19_RequestCarriesSuppliedParams ==
    /\ searchInFlight.sent =>
          /\ searchInFlight.query.q = SentFor(searchParams.searchQuery)
          /\ searchInFlight.query.minPrice = SentFor(searchParams.minPrice)
          /\ searchInFlight.query.maxPrice = SentFor(searchParams.maxPrice)
          /\ searchInFlight.query.category =
                IF searchParams.category = <<"a", "l", "l">> THEN Undefined
                ELSE SentFor(searchParams.category)
    /\ (searchParams = EmptyParams /\ inventoryQuery.status = "success") =>
          results = inventoryData

\* C19 witness: a request with a name and a minimum price, the category
\* "all" and an empty maximum price
C19_Witness ==
    /\ searchInFlight.sent
    /\ searchParams.searchQuery # <<>> /\ searchParams.minPrice # <<>>
    /\ searchParams.category = <<"a", "l", "l">>
    /\ searchParams.maxPrice = <<>>
    /\ searchInFlight.query.category = Undefined

\* the client rejects the form f: handleSearch leaves a validation error
ClientRejects(f) == handleSearch(f, searchParams).validationError # ""

\* the server answers the request for the parameters f with the 400
\* validation error
ServerRejects(f) ==
    searchHandler(inventoryData, queryParams(f)) = <<invalidRangeResponse>>

\* C21: the client validation and the server validation of the price range
\* agree: the client rejects the form exactly when the server would answer
\* the corresponding request with the 400 validation error, so no search
\* request submitted through the form is answered with that error.
C21_ValidationsAgree ==
    /\ \A min \in FormPrices, max \in FormPrices :
          LET f == [form EXCEPT !.minPrice = min, !.maxPrice = max]
          IN  ClientRejects(f) <=> ServerRejects(f)
    /\ searchInFlight.sent =>
          LET r == searchHandler(inventoryData, searchInFlight.query)
          IN  \A i \in DOMAIN r : r[i].status = 200
    /\ inventoryQuery.error \in {"", "Network Error"}

\* C21 witness: a search with both prices went through and was answered
\* with results; the form now holds a minimum above the maximum, which the
\* client has rejected and the server would answer with 400
C21_Witness ==
    /\ validationError # "" /\ ClientRejects(form) /\ ServerRejects(form)
    /\ searchParams.minPrice # <<>> /\ searchParams.maxPrice # <<>>
    /\ ~ClientRejects(searchParams) /\ ~ServerRejects(searchParams)
    /\ inventoryQuery.status = "success"

\* C22: while a search request is in flight the Search and Reset buttons
\* are disabled, so the search parameters do not change and no search for
\* other parameters starts until the request has settled; in every state
\* exactly one of the loading panel and the results section is shown.
C22_OneSearchAtATime ==
    /\ [](/\ searchInFlight.sent => (isLoading \/ isFetching)
          /\ (isLoading \/ isFetching) => buttonsDisabled
          /\ loadingPanel # showResults)
    /\ [][searchInFlight.sent =>
             /\ searchParams' = searchParams
             /\ ~HandleSearch /\ ~HandleReset
             /\ searchInFlight'.sent =>
                   searchInFlight'.query = searchInFlight.query]_vars

\* C22 witness: a refetch over cached results is in flight after its first
\* request failed; the form has been edited meanwhile, the buttons are
\* disabled and the loading panel is shown in place of the results
C22_Witness ==
    /\ searchInFlight.sent /\ attempts = 2
    /\ ~isLoading /\ isFetching /\ inventoryQuery.hasData
    /\ buttonsDisabled /\ loadingPanel /\ ~showResults
    /\ form # searchParams

====
